---------------------------- MODULE Spec2Model ----------------------------
(* A model of the Discord JSON chat-log formatter (parser.py) and of the     *)
(* searcher over the formatted archive (searcher.py).                        *)
(*                                                                           *)
(* Text is modelled character by character: a Python str is a sequence of    *)
(* one-character strings, a list of lines is a sequence of such sequences.   *)
(* None is the value None_ (Python's None), kept apart from every text.      *)
EXTENDS Integers, Sequences, FiniteSets, TLC

\* ------------------------------------------------------------------------
\* Characters and str methods
\* ------------------------------------------------------------------------

\* Python's None, where a str (a sequence of characters) may stand instead.
None_ == <<"None_">>

\* Python's True and False, where None may stand instead.
True_ == <<"True">>

False_ == <<"False">>

Bool(b) == IF b THEN True_ ELSE False_

Uppers == <<"A","B","C","D","E","F","G","H","I","J","K","L","M",
            "N","O","P","Q","R","S","T","U","V","W","X","Y","Z">>

Lowers == <<"a","b","c","d","e","f","g","h","i","j","k","l","m",
            "n","o","p","q","r","s","t","u","v","w","x","y","z">>

Digits == <<"0","1","2","3","4","5","6","7","8","9">>

\* The code points of the characters used, in ascending order (ASCII).
CodePoints == <<"\t", "\n", " ", "!", "\"", "(", ")", "*", "+", ",", "-", ".", "/">>
              \o Digits \o <<":", "=", "?">> \o Uppers
              \o <<"[", "\\", "]", "_">> \o Lowers \o <<"{", "|", "}">>

Range(s) == { s[i] : i \in DOMAIN s }

ord(c) == CHOOSE i \in DOMAIN CodePoints : CodePoints[i] = c

\* str.isspace for one character
IsSpace(c) == c \in {" ", "\t", "\n"}

\* regex \w for one character
IsWord(c) == c \in Range(Uppers) \cup Range(Lowers) \cup Range(Digits) \cup {"_"}

LowerChar(c) ==
  IF c \in Range(Uppers)
    THEN Lowers[CHOOSE i \in DOMAIN Uppers : Uppers[i] = c]
    ELSE c

\* str.lower()
lower(s) == [i \in DOMAIN s |-> LowerChar(s[i])]

\* The slice s[a:b] of Python, for 0 <= a, with 0-based bounds.
Slice(s, a, b) ==
  IF b <= a THEN << >> ELSE SubSeq(s, a + 1, IF b > Len(s) THEN Len(s) ELSE b)

\* Number of leading characters of s that satisfy isspace.
RECURSIVE LeadingSpaces(_, _)
LeadingSpaces(s, i) ==
  IF i <= Len(s) /\ IsSpace(s[i]) THEN LeadingSpaces(s, i + 1) ELSE i - 1

\* Index of the last character of s[1..i] that is not whitespace (0 if none).
RECURSIVE LastNonSpace(_, _)
LastNonSpace(s, i) ==
  IF i >= 1 /\ IsSpace(s[i]) THEN LastNonSpace(s, i - 1) ELSE i

\* str.rstrip()
rstrip(s) == SubSeq(s, 1, LastNonSpace(s, Len(s)))

\* str.lstrip()
lstrip(s) == SubSeq(s, LeadingSpaces(s, 1) + 1, Len(s))

\* str.strip()
strip(s) == lstrip(rstrip(s))

\* str.lstrip(".")
RECURSIVE lstripDots(_)
lstripDots(s) ==
  IF s # << >> /\ Head(s) = "." THEN lstripDots(Tail(s)) ELSE s

\* str.startswith(p)
startswith(s, p) == Len(s) >= Len(p) /\ SubSeq(s, 1, Len(p)) = p

\* str.endswith("\n")
endswithNL(s) == s # << >> /\ s[Len(s)] = "\n"

\* p in s  (substring test)
Contains(s, p) ==
  \E k \in 0 .. (Len(s) - Len(p)) : SubSeq(s, k + 1, k + Len(p)) = p

\* a < b for two str, as Python compares them: by code point, then by length.
RECURSIVE StrLessFrom(_, _, _)
StrLessFrom(a, b, i) ==
  IF i > Len(a) THEN i <= Len(b)
  ELSE IF i > Len(b) THEN FALSE
  ELSE IF a[i] = b[i] THEN StrLessFrom(a, b, i + 1)
  ELSE ord(a[i]) < ord(b[i])

StrLess(a, b) == StrLessFrom(a, b, 1)

\* e, once v has been evaluated: Python evaluates an assignment before the
\* statement after it, and so does this.
Eager(v, e) == IF v = v THEN e ELSE e

\* "".join(parts): the parts one after the other (halving keeps the
\* evaluation shallow).
RECURSIVE Concat(_)
Concat(parts) ==
  IF parts = << >> THEN << >>
  ELSE IF Len(parts) = 1 THEN parts[1]
  ELSE Concat(SubSeq(parts, 1, Len(parts) \div 2))
       \o Concat(SubSeq(parts, Len(parts) \div 2 + 1, Len(parts)))

\* "\n".join(lines)
JoinNL(lines) ==
  Concat([i \in DOMAIN lines |->
            IF i < Len(lines) THEN lines[i] \o <<"\n">> ELSE lines[i]])

\* str.splitlines(keepends): the lines of s, each ending at a "\n" (kept
\* only with keepends) or at the end of s; no empty last line is produced
\* when s ends with "\n".
splitlines(s, keepends) ==
  LET breaks == { i \in DOMAIN s : s[i] = "\n" }
      n == Cardinality(breaks) + (IF s # << >> /\ s[Len(s)] # "\n" THEN 1 ELSE 0)
      \* the k-th line break, or the end of s for a last line without one
      stop(k) == IF k <= Cardinality(breaks)
                   THEN CHOOSE i \in breaks :
                          Cardinality({ j \in breaks : j < i }) = k - 1
                   ELSE Len(s) + 1
  IN [k \in 1 .. n |->
        SubSeq(s, IF k = 1 THEN 1 ELSE stop(k - 1) + 1,
               IF keepends /\ k <= Cardinality(breaks) THEN stop(k) ELSE stop(k) - 1)]

\* str(n) for a natural number n
RECURSIVE StrOfNat(_)
StrOfNat(n) ==
  IF n < 10 THEN << Digits[n + 1] >>
  ELSE StrOfNat(n \div 10) \o << Digits[(n % 10) + 1] >>

\* A run of n copies of the character c:  c * n
Rep(c, n) == [i \in 1 .. n |-> c]


\* ------------------------------------------------------------------------
\* searcher.py: the archive parser
\* ------------------------------------------------------------------------

DividerLen == 40

\* DIVIDER = "-" * 40
DIVIDER == Rep("-", DividerLen)

BannerLen == 60

MAX_LINES_LISTED_PER_FILE == 20

\* Index of the first "]" of line at or after i (0 if there is none).
RECURSIVE FirstClose(_, _)
FirstClose(line, i) ==
  IF i > Len(line) THEN 0
  ELSE IF line[i] = "]" THEN i
  ELSE FirstClose(line, i + 1)

\* parse_header: the groups (ts, name) of
\*   ^\[(?P<ts>[^\]]+)\]\s+(?P<name>.+?)\s*$
\* on a line without line breaks, or (None, None).
\* ts is the text between "[" and the first "]" (at least one character);
\* \s+ needs one whitespace after it; name is the rest, stripped, and when the
\* rest is whitespace only, \s+ gives back its last character to name.
parse_header(line) ==
  LET k == FirstClose(line, 2)
      rest == SubSeq(line, k + 1, Len(line))
  IN IF line = << >> \/ line[1] # "[" \/ k < 3 THEN <<None_, None_>>
     ELSE IF rest = << >> \/ ~IsSpace(rest[1]) \/ "\n" \in Range(rest)
       THEN <<None_, None_>>
     ELSE IF strip(rest) # << >>
       THEN << SubSeq(line, 2, k - 1), strip(rest) >>
     ELSE IF Len(rest) >= 2
       THEN << SubSeq(line, 2, k - 1), << rest[Len(rest)] >> >>
     ELSE <<None_, None_>>

NO_DATE == <<"N","O","_","D","A","T","E">>

derive_date_from_timestamp(ts) ==
  IF Len(ts) >= 10 /\ ts[5] = "-" /\ ts[8] = "-"
    THEN SubSeq(ts, 1, 10)
    ELSE NO_DATE

AttachmentPrefix == <<"A","t","t","a","c","h","m","e","n","t",":">>

ProxyPrefix == <<"P","r","o","x","y",":">>

\* str.rstrip("\n")
RECURSIVE rstripNL(_)
rstripNL(s) ==
  IF endswithNL(s) THEN rstripNL(SubSeq(s, 1, Len(s) - 1)) ELSE s

\* Index of the last "." of s (0 if there is none).
RECURSIVE LastDot(_, _)
LastDot(s, i) ==
  IF i < 1 THEN 0 ELSE IF s[i] = "." THEN i ELSE LastDot(s, i - 1)

\* filename.rsplit(".", 1)[-1].lower() if "." in filename else ""
ExtOf(filename) ==
  LET d == LastDot(filename, Len(filename))
  IN IF d = 0 THEN << >> ELSE lower(SubSeq(filename, d + 1, Len(filename)))

\* block_lines with its trailing blank lines popped
RECURSIVE PopBlankLines(_)
PopBlankLines(lines) ==
  IF lines # << >> /\ strip(lines[Len(lines)]) = << >>
    THEN PopBlankLines(SubSeq(lines, 1, Len(lines) - 1))
    ELSE lines

\* The while loop of parse_block over block_lines[i:] (i is 1-based here);
\* the result is <<content_lines, attachments>>.
RECURSIVE ScanBlock(_, _, _, _)
ScanBlock(block_lines, i, content_lines, attachments) ==
  IF i > Len(block_lines) THEN <<content_lines, attachments>>
  ELSE
    LET line == rstripNL(block_lines[i])
    IN IF startswith(line, AttachmentPrefix)
         THEN LET filename == strip(SubSeq(line, Len(AttachmentPrefix) + 1, Len(line)))
                  nxt == IF i + 1 <= Len(block_lines)
                           THEN rstripNL(block_lines[i + 1]) ELSE << >>
                  hasProxy == i + 1 <= Len(block_lines) /\ startswith(nxt, ProxyPrefix)
                  proxy_url == IF hasProxy
                                 THEN strip(SubSeq(nxt, Len(ProxyPrefix) + 1, Len(nxt)))
                                 ELSE << >>
                  att == [filename |-> filename, ext |-> ExtOf(filename),
                          proxy_url |-> proxy_url]
              IN ScanBlock(block_lines, IF hasProxy THEN i + 2 ELSE i + 1,
                           content_lines, Append(attachments, att))
       ELSE IF startswith(line, ProxyPrefix)
         THEN ScanBlock(block_lines, i + 1, content_lines, attachments)
       ELSE IF strip(line) # << >>
         THEN ScanBlock(block_lines, i + 1, Append(content_lines, line), attachments)
       ELSE ScanBlock(block_lines, i + 1, content_lines, attachments)

\* None, where a Message (a record) may stand instead.
NoMessage == [isNone |-> TRUE]

\* parse_block: the Message of a block, or None.
parse_block(block_lines0, source_file, start_line) ==
  LET block_lines == PopBlankLines(block_lines0)
  IN IF block_lines = << >> THEN NoMessage
     ELSE
       LET hdr == parse_header(block_lines[1])
       IN IF hdr[1] = None_ \/ hdr[1] = << >> \/ hdr[2] = None_ \/ hdr[2] = << >>
            THEN NoMessage
          ELSE
            LET scan == ScanBlock(block_lines, 2, << >>, << >>)
                joined == IF scan[1] # << >> THEN strip(JoinNL(scan[1])) ELSE None_
            IN [ timestamp   |-> hdr[1],
                 date        |-> derive_date_from_timestamp(hdr[1]),
                 name        |-> hdr[2],
                 content     |-> IF joined = << >> THEN None_ ELSE joined,
                 attachments |-> scan[2],
                 raw_block   |-> rstrip(JoinNL(block_lines))
                                   \o <<"\n">> \o DIVIDER \o <<"\n">>,
                 source_file |-> source_file,
                 start_line  |-> start_line ]

\* flush_block of parse_file_into_messages: the messages list after the flush.
\* current_start_line = 0 stands for None (line numbers start at 1).
flush_block(messages, current_block, current_start_line, name) ==
  IF current_block # << >> /\ current_start_line # 0
    THEN LET msg == parse_block(current_block, name, current_start_line)
         IN IF msg # NoMessage THEN Append(messages, msg) ELSE messages
    ELSE messages

\* The local state of parse_file_into_messages before its first line.
TokenizeStart ==
  [messages |-> << >>, current_block |-> << >>, current_start_line |-> 0]

\* A turn of the loop that takes every non-blank line for the start of the
\* block.
TokenizeStep_every_line(st, lines, idx, name) ==
  IF strip(lines[idx]) = DIVIDER
    THEN [ messages |-> flush_block(st.messages, st.current_block,
                                    st.current_start_line, name),
           current_block |-> << >>,
           current_start_line |-> 0 ]
    ELSE [ messages |-> st.messages,
           current_block |-> Append(st.current_block, lines[idx]),
           current_start_line |->
             IF strip(lines[idx]) # << >>
               THEN idx ELSE st.current_start_line ]

\* One turn of the for loop of parse_file_into_messages, on line idx.
TokenizeStep(st, lines, idx, name) ==
  IF strip(lines[idx]) = DIVIDER
    THEN [ messages |-> flush_block(st.messages, st.current_block,
                                    st.current_start_line, name),
           current_block |-> << >>,
           current_start_line |-> 0 ]
    ELSE [ messages |-> st.messages,
           current_block |-> Append(st.current_block, lines[idx]),
           current_start_line |->
             IF st.current_start_line = 0 /\ strip(lines[idx]) # << >>
               THEN idx ELSE st.current_start_line ]

\* The for loop of parse_file_into_messages over lines lo..hi, in order,
\* from the local state st (the range is halved to keep evaluation shallow).
RECURSIVE TokenizeLoop(_, _, _, _, _)
TokenizeLoop(lines, lo, hi, st, name) ==
  IF lo > hi THEN st
  ELSE IF lo = hi THEN TokenizeStep(st, lines, lo, name)
  ELSE LET done == TokenizeLoop(lines, lo, (lo + hi) \div 2, st, name)
       IN Eager(done, TokenizeLoop(lines, (lo + hi) \div 2 + 1, hi, done, name))

\* parse_file_into_messages that returns at the end of its loop, without the
\* last flush_block.
parse_file_without_last_flush(name, text) ==
  LET lines == splitlines(text, FALSE)
  IN TokenizeLoop(lines, 1, Len(lines), TokenizeStart, name).messages

\* parse_file_into_messages, given the file's name and its text
parse_file_into_messages(name, text) ==
  LET lines == splitlines(text, FALSE)
      st == TokenizeLoop(lines, 1, Len(lines), TokenizeStart, name)
  IN flush_block(st.messages, st.current_block, st.current_start_line, name)

\* iter_txt_files: the names of the directory that end in ".txt", sorted as
\* Path objects sort (by code point). A directory is a set of file names.
TxtSuffix == <<".","t","x","t">>

endswithTxt(name) ==
  Len(name) >= Len(TxtSuffix)
  /\ SubSeq(name, Len(name) - Len(TxtSuffix) + 1, Len(name)) = TxtSuffix

\* list.sort / sorted: Python's sort is stable, so the place of s[i] in the
\* result is the number of elements that are less than it, or that are
\* neither less nor greater and stand before it.
SortBy(s, Less(_, _)) ==
  LET rank == [i \in DOMAIN s |->
                 Cardinality({ j \in DOMAIN s :
                   Less(s[j], s[i]) \/ (~Less(s[i], s[j]) /\ j < i) }) + 1]
      at == [p \in DOMAIN s |-> CHOOSE i \in DOMAIN s : rank[i] = p]
  IN [p \in DOMAIN s |-> s[at[p]]]

\* A set of str as a list, in ascending order.
SortedNames(names) ==
  [p \in 1 .. Cardinality(names) |->
     CHOOSE n \in names : Cardinality({ m \in names : StrLess(m, n) }) = p - 1]

iter_txt_files(dir) == SortedNames({ n \in dir : endswithTxt(n) })

\* ------------------------------------------------------------------------
\* searcher.py: filters
\* ------------------------------------------------------------------------

\* prompt_optional: the stripped answer, or None when it is empty
prompt_optional(answer) ==
  IF strip(answer) = << >> THEN None_ ELSE strip(answer)

\* prompt_optional_bool
prompt_optional_bool(answer) ==
  LET raw == lower(strip(answer))
  IN IF raw = << >> THEN None_
     ELSE IF raw \in {<<"y">>, <<"y","e","s">>, <<"t","r","u","e">>, <<"t">>, <<"1">>} THEN True_
     ELSE IF raw \in {<<"n">>, <<"n","o">>, <<"f","a","l","s","e">>, <<"f">>, <<"0">>} THEN False_
     ELSE None_

\* The characters re.escape puts a backslash before.
ReSpecialChars ==
  {"(", ")", "[", "]", "{", "}", "?", "*", "+", "-", "|", "^", "$", "\\", ".",
   "&", "~", "#", " ", "\t", "\n"}

\* An escape that leaves every character as it is.
re_escape_nothing(s) == s

\* re.escape
RECURSIVE re_escape(_)
re_escape(s) ==
  IF s = << >> THEN << >>
  ELSE (IF Head(s) \in ReSpecialChars THEN <<"\\", Head(s)>> ELSE <<Head(s)>>)
       \o re_escape(Tail(s))

\* The source text of the two lookarounds of the exact-token pattern.
LookBehindSrc == <<"(","?","<","!","\\","w",")">>

LookAheadSrc == <<"(","?","!","\\","w",")">>

\* A compiled pattern is a sequence of items: a one-character string is that
\* literal character, NotWordBefore and NotWordAfter are the two lookarounds,
\* AnyChar is an unescaped "." (any character but a line break).
NotWordBefore == "(?<!w)"

NotWordAfter == "(?!w)"

AnyChar == "(.)"

\* re.compile of a pattern source, for the sources this program builds:
\* backslash escapes, ".", and the two lookarounds.
RECURSIVE re_compile(_)
re_compile(src) ==
  IF src = << >> THEN << >>
  ELSE IF startswith(src, LookBehindSrc)
    THEN <<NotWordBefore>> \o re_compile(SubSeq(src, Len(LookBehindSrc) + 1, Len(src)))
  ELSE IF startswith(src, LookAheadSrc)
    THEN <<NotWordAfter>> \o re_compile(SubSeq(src, Len(LookAheadSrc) + 1, Len(src)))
  ELSE IF src[1] = "\\" /\ Len(src) >= 2
    THEN <<src[2]>> \o re_compile(SubSeq(src, 3, Len(src)))
  ELSE IF src[1] = "."
    THEN <<AnyChar>> \o re_compile(Tail(src))
  ELSE <<src[1]>> \o re_compile(Tail(src))

\* Whether items pat[i..] match hay starting after its first k characters,
\* under re.IGNORECASE.
RECURSIVE MatchAt(_, _, _, _)
MatchAt(pat, i, hay, k) ==
  IF i > Len(pat) THEN TRUE
  ELSE IF pat[i] = NotWordBefore
    THEN (k = 0 \/ ~IsWord(hay[k])) /\ MatchAt(pat, i + 1, hay, k)
  ELSE IF pat[i] = NotWordAfter
    THEN (k >= Len(hay) \/ ~IsWord(hay[k + 1])) /\ MatchAt(pat, i + 1, hay, k)
  ELSE IF pat[i] = AnyChar
    THEN k < Len(hay) /\ hay[k + 1] # "\n" /\ MatchAt(pat, i + 1, hay, k + 1)
  ELSE k < Len(hay) /\ LowerChar(hay[k + 1]) = LowerChar(pat[i])
       /\ MatchAt(pat, i + 1, hay, k + 1)

\* pattern.search(hay) is not None
re_search(pat, hay) == \E k \in 0 .. Len(hay) : MatchAt(pat, 1, hay, k)

\* compile_contains_pattern: the pair (user_input, compiled pattern)
compile_contains_pattern(user_input) ==
  LET s == strip(user_input)
  IN IF Len(s) >= 2 /\ s[1] = "\"" /\ s[Len(s)] = "\""
       THEN LET token == SubSeq(s, 2, Len(s) - 1)
            IN << user_input,
                  re_compile(LookBehindSrc \o re_escape(token) \o LookAheadSrc) >>
       ELSE << user_input, re_compile(re_escape(s)) >>

\* matches_filters with a name criterion that tells upper case from lower.
matches_filters_name_case(msg, filters) ==
  LET hay == IF msg.content = None_ THEN << >> ELSE msg.content
      has_att == Len(msg.attachments) > 0
      want == lstripDots(lower(filters.attachment_ext))
  IN IF filters.date # None_ /\ msg.date # filters.date THEN FALSE
     ELSE IF filters.name # None_ /\ msg.name # filters.name THEN FALSE
     ELSE IF filters.contains_pat # None_ /\ ~re_search(filters.contains_pat, hay)
       THEN FALSE
     ELSE IF filters.exclude # None_ /\ Contains(lower(hay), lower(filters.exclude))
       THEN FALSE
     ELSE IF filters.has_attachment # None_ /\ Bool(has_att) # filters.has_attachment
       THEN FALSE
     ELSE IF filters.attachment_ext # None_
       THEN IF ~has_att THEN FALSE
            ELSE \E i \in DOMAIN msg.attachments : msg.attachments[i].ext = want
     ELSE TRUE

\* matches_filters
matches_filters(msg, filters) ==
  LET hay == IF msg.content = None_ THEN << >> ELSE msg.content
      has_att == Len(msg.attachments) > 0
      want == lstripDots(lower(filters.attachment_ext))
  IN IF filters.date # None_ /\ msg.date # filters.date THEN FALSE
     ELSE IF filters.name # None_ /\ lower(msg.name) # lower(filters.name) THEN FALSE
     ELSE IF filters.contains_pat # None_ /\ ~re_search(filters.contains_pat, hay)
       THEN FALSE
     ELSE IF filters.exclude # None_ /\ Contains(lower(hay), lower(filters.exclude))
       THEN FALSE
     ELSE IF filters.has_attachment # None_ /\ Bool(has_att) # filters.has_attachment
       THEN FALSE
     ELSE IF filters.attachment_ext # None_
       THEN IF ~has_att THEN FALSE
            ELSE \E i \in DOMAIN msg.attachments : msg.attachments[i].ext = want
     ELSE TRUE

\* ------------------------------------------------------------------------
\* searcher.py: the report
\* ------------------------------------------------------------------------

\* show(v) of format_filters_summary: "ANY" for None, str(v) otherwise
show(v) ==
  IF v = None_ THEN <<"A","N","Y">>
  ELSE IF v = True_ THEN <<"T","r","u","e">>
  ELSE IF v = False_ THEN <<"F","a","l","s","e">>
  ELSE v

format_filters_summary(filters) ==
  <<"S","e","a","r","c","h"," ","f","i","l","t","e","r","s"," ","u","s","e","d",":","\n">>
  \o <<"-"," ","D","a","t","e",":"," ">> \o show(filters.date) \o <<"\n">>
  \o <<"-"," ","G","l","o","b","a","l"," ","n","a","m","e",":"," ">> \o show(filters.name) \o <<"\n">>
  \o <<"-"," ","C","o","n","t","e","n","t"," ","c","o","n","t","a","i","n","s",":"," ">> \o show(filters.contains_raw) \o <<"\n">>
  \o <<"-"," ","E","x","c","l","u","d","e"," ","c","o","n","t","e","n","t",":"," ">> \o show(filters.exclude) \o <<"\n">>
  \o <<"-"," ","H","a","s"," ","a","t","t","a","c","h","m","e","n","t",":"," ">> \o show(filters.has_attachment) \o <<"\n">>
  \o <<"-"," ","A","t","t","a","c","h","m","e","n","t"," ","t","y","p","e","/","e","x","t",":"," ">> \o show(filters.attachment_ext) \o <<"\n">>

\* by_file.setdefault(m.source_file, []).append(m.start_line): a dict keeps
\* its keys in insertion order, so by_file is a list of pairs
\* <<file name, line numbers>>.
ByFileStep(acc, m) ==
  IF \E k \in DOMAIN acc : acc[k][1] = m.source_file
    THEN [k \in DOMAIN acc |->
            IF acc[k][1] = m.source_file
              THEN <<acc[k][1], Append(acc[k][2], m.start_line)>>
              ELSE acc[k]]
    ELSE Append(acc, <<m.source_file, <<m.start_line>>>>)

\* The first loop of build_file_summary over matched[lo..hi], in order.
RECURSIVE ByFileLoop(_, _, _, _)
ByFileLoop(matched, lo, hi, acc) ==
  IF lo > hi THEN acc
  ELSE IF lo = hi THEN ByFileStep(acc, matched[lo])
  ELSE LET done == ByFileLoop(matched, lo, (lo + hi) \div 2, acc)
       IN Eager(done, ByFileLoop(matched, (lo + hi) \div 2 + 1, hi, done))

\* key=lambda kv: (-len(kv[1]), kv[0].lower()), as a comparison of two items
SummaryItemLess(a, b) ==
  \/ Len(a[2]) > Len(b[2])
  \/ Len(a[2]) = Len(b[2]) /\ StrLess(lower(a[1]), lower(b[1]))

\* An order of line numbers that descends.
IntGreater(a, b) == a > b

\* sorted(line_nums): the order of the numbers.
IntLess(a, b) == a < b

\* ", ".join(str(n) for n in nums)
JoinNums(nums) ==
  Concat([i \in DOMAIN nums |->
            IF i < Len(nums) THEN StrOfNat(nums[i]) \o <<","," ">> ELSE StrOfNat(nums[i])])

\* The line build_file_summary writes for one file.
SummaryLine(fname, line_nums) ==
  LET line_nums_sorted == SortBy(line_nums, IntLess)
      count == Len(line_nums_sorted)
  IN IF count <= MAX_LINES_LISTED_PER_FILE
       THEN <<"F","o","u","n","d"," ">> \o StrOfNat(count) \o <<" ","e","n","t","r","i","e","s"," ","i","n"," ">> \o fname
            \o <<" ","o","n"," ","l","i","n","e","s"," ">> \o JoinNums(line_nums_sorted)
       ELSE <<"F","o","u","n","d"," ">> \o StrOfNat(count) \o <<" ","e","n","t","r","i","e","s"," ","i","n"," ">> \o fname
            \o <<" ","o","n"," ","l","i","n","e","s"," ">>
            \o JoinNums(SubSeq(line_nums_sorted, 1, MAX_LINES_LISTED_PER_FILE))
            \o <<","," ",".",".","."," ","(","+">> \o StrOfNat(count - MAX_LINES_LISTED_PER_FILE)
            \o <<" ","m","o","r","e",")">>

\* The lines of build_file_summary, before they are joined.
SummaryLines(matched) ==
  LET by_file == ByFileLoop(matched, 1, Len(matched), << >>)
      items == SortBy(by_file, SummaryItemLess)
  IN IF by_file = << >>
       THEN << <<"P","e","r","-","f","i","l","e"," ","s","u","m","m","a","r","y",":">>, <<"(","N","o"," ","m","a","t","c","h","e","s",".",")">> >>
       ELSE << <<"P","e","r","-","f","i","l","e"," ","s","u","m","m","a","r","y",":">> >>
            \o [k \in DOMAIN items |-> SummaryLine(items[k][1], items[k][2])]

build_file_summary(matched) == JoinNL(SummaryLines(matched)) \o <<"\n">>

\* strip_trailing_divider
strip_trailing_divider(raw_block) ==
  LET lines == PopBlankLines(splitlines(raw_block, TRUE))
      kept == IF lines # << >> /\ strip(lines[Len(lines)]) = DIVIDER
                THEN SubSeq(lines, 1, Len(lines) - 1)
                ELSE lines
      out == Concat(kept)
  IN IF out # << >> /\ ~endswithNL(out) THEN out \o <<"\n">> ELSE out

\* An index that keeps, for every file name of matched, its first place.
first_index_for_file(matched) ==
  [f \in { matched[i].source_file : i \in DOMAIN matched } |->
     CHOOSE i \in DOMAIN matched :
       /\ matched[i].source_file = f
       /\ \A j \in DOMAIN matched : matched[j].source_file = f => j >= i]

\* last_index_for_file: for every file name of matched, the index (1-based
\* here) the loop assigned last.
last_index_for_file(matched) ==
  [f \in { matched[i].source_file : i \in DOMAIN matched } |->
     CHOOSE i \in DOMAIN matched :
       /\ matched[i].source_file = f
       /\ \A j \in DOMAIN matched : matched[j].source_file = f => j <= i]

\* The block written (and counted) for matched[i]: is_last_in_file_group
\* decides whether its divider is stripped.
OutputBlock(matched, i, last_index) ==
  IF last_index[matched[i].source_file] = i
    THEN strip_trailing_divider(matched[i].raw_block)
    ELSE matched[i].raw_block

\* The second loop of compute_total_chars_for_output over matched[lo..hi].
RECURSIVE TotalCharsLoop(_, _, _, _, _)
TotalCharsLoop(matched, lo, hi, total, last_index) ==
  IF lo > hi THEN total
  ELSE IF lo = hi THEN total + Len(OutputBlock(matched, lo, last_index)) + 1
  ELSE LET done == TotalCharsLoop(matched, lo, (lo + hi) \div 2, total, last_index)
       IN Eager(done, TotalCharsLoop(matched, (lo + hi) \div 2 + 1, hi, done, last_index))

compute_total_chars_for_output(matched) ==
  IF matched = << >> THEN 0
  ELSE TotalCharsLoop(matched, 1, Len(matched), 0, last_index_for_file(matched))

\* The file banner of write_matched_grouped_by_file: three writes.
Banner(current_file) ==
  << Rep("=", BannerLen) \o <<"\n">>,
     current_file \o <<"\n">>,
     Rep("=", BannerLen) \o <<"\n", "\n">> >>

\* One turn of the second loop of write_matched_grouped_by_file, on
\* matched[i]: st holds current_file and the strings passed to f.write so far.
WriteStep(st, matched, i, last_index) ==
  LET m == matched[i]
      block == OutputBlock(matched, i, last_index)
  IN [ current_file |-> m.source_file,
       writes |-> st.writes
                  \o (IF st.current_file # m.source_file
                        THEN Banner(m.source_file) ELSE << >>)
                  \o << block >>
                  \o (IF ~endswithNL(block) THEN << <<"\n">> >> ELSE << >>)
                  \o << <<"\n">> >> ]

\* The second loop of write_matched_grouped_by_file over matched[lo..hi].
RECURSIVE WriteLoop(_, _, _, _, _)
WriteLoop(matched, lo, hi, st, last_index) ==
  IF lo > hi THEN st
  ELSE IF lo = hi THEN WriteStep(st, matched, lo, last_index)
  ELSE LET done == WriteLoop(matched, lo, (lo + hi) \div 2, st, last_index)
       IN Eager(done, WriteLoop(matched, (lo + hi) \div 2 + 1, hi, done, last_index))

\* write_matched_grouped_by_file: the strings it passes to f.write, in order.
write_matched_grouped_by_file(matched) ==
  IF matched = << >> THEN << >>
  ELSE WriteLoop(matched, 1, Len(matched),
                 [current_file |-> None_, writes |-> << >>],
                 last_index_for_file(matched)).writes

\* The writes of main before it calls write_matched_grouped_by_file.
ReportHead(filters, matched, total_entries, total_chars) ==
  << format_filters_summary(filters),
     <<"\n">>,
     build_file_summary(matched),
     <<"\n","T","o","t","a","l"," ">> \o StrOfNat(total_entries) \o <<" ","e","n","t","r","i","e","s",","," ","w","i","t","h"," ">>
        \o StrOfNat(total_chars) \o <<" ","c","h","a","r","a","c","t","e","r","s",".","\n">>,
     <<"\n">>,
     Rep("=", BannerLen) \o <<"\n">>,
     <<"M","a","t","c","h","e","d"," ","m","e","s","s","a","g","e","s"," ","(","s","o","r","t","e","d"," ","b","y"," ","t","i","m","e","s","t","a","m","p",")",":","\n">>,
     Rep("=", BannerLen) \o <<"\n", "\n">> >>

\* A sort of matched that descends by timestamp.
TimestampGreater(a, b) == StrLess(b.timestamp, a.timestamp)

\* matched.sort(key=lambda m: m.timestamp): the order of the keys.
TimestampLess(a, b) == StrLess(a.timestamp, b.timestamp)

\* [m for m in messages if matches_filters(m, filters)]
matched_of(messages, filters) ==
  SelectSeq(messages, LAMBDA m : matches_filters(m, filters))

\* ------------------------------------------------------------------------
\* searcher.py: the date prompt
\* ------------------------------------------------------------------------

\* The separators of re.split(r"[\/\-\.\s]+", raw)
IsDateSep(c) == c \in {"/", "-", "."} \/ IsSpace(c)

\* Index of the first character of s at or after i that is no separator.
RECURSIVE SkipDateSeps(_, _)
SkipDateSeps(s, i) ==
  IF i <= Len(s) /\ IsDateSep(s[i]) THEN SkipDateSeps(s, i + 1) ELSE i

\* re.split(r"[\/\-\.\s]+", raw): the parts between runs of separators (a
\* leading or trailing run leaves an empty part).
RECURSIVE re_split_date(_, _, _)
re_split_date(s, i, cur) ==
  IF i > Len(s) THEN << cur >>
  ELSE IF IsDateSep(s[i])
    THEN << cur >> \o re_split_date(s, SkipDateSeps(s, i), << >>)
  ELSE re_split_date(s, i + 1, Append(cur, s[i]))

\* Whether int(part) succeeds: a non-empty run of decimal digits.
IsInt(part) == part # << >> /\ \A i \in DOMAIN part : part[i] \in Range(Digits)

DigitValue(c) == (CHOOSE i \in DOMAIN Digits : Digits[i] = c) - 1

\* int(part)
RECURSIVE int_of(_)
int_of(part) ==
  IF part = << >> THEN 0
  ELSE int_of(SubSeq(part, 1, Len(part) - 1)) * 10 + DigitValue(part[Len(part)])

\* f"{n:0wd}"
ZeroPad(n, w) ==
  LET d == StrOfNat(n)
  IN IF Len(d) >= w THEN d ELSE Rep("0", w - Len(d)) \o d

MaxYear == 9999

\* prompt_optional_date: "YYYY-MM-DD", or None (no answer, or an answer that
\* is refused with a warning).
prompt_optional_date(answer) ==
  LET raw == strip(answer)
      parts == re_split_date(raw, 1, << >>)
  IN IF raw = << >> THEN None_
     ELSE IF Len(parts) # 3 THEN None_
     ELSE IF ~(IsInt(parts[1]) /\ IsInt(parts[2]) /\ IsInt(parts[3])) THEN None_
     ELSE
       LET d == int_of(parts[1])
           m == int_of(parts[2])
           y == int_of(parts[3])
       IN IF ~(1 <= m /\ m <= 12 /\ 1 <= d /\ d <= 31 /\ 1 <= y /\ y <= MaxYear)
            THEN None_
            ELSE ZeroPad(y, 4) \o <<"-">> \o ZeroPad(m, 2) \o <<"-">> \o ZeroPad(d, 2)

\* The filters dict main builds from the answers typed at its prompts.
filters_of(answers) ==
  LET contains_raw_input == prompt_optional(answers.contains)
      compiled == compile_contains_pattern(contains_raw_input)
      has_attachment_filter == prompt_optional_bool(answers.has_attachment)
      ext_answer == prompt_optional(answers.attachment_ext)
  IN [ date           |-> prompt_optional_date(answers.date),
       name           |-> prompt_optional(answers.name),
       contains_raw   |-> IF contains_raw_input # None_ THEN compiled[1] ELSE None_,
       contains_pat   |-> IF contains_raw_input # None_ THEN compiled[2] ELSE None_,
       exclude        |-> prompt_optional(answers.exclude),
       has_attachment |-> has_attachment_filter,
       attachment_ext |-> IF has_attachment_filter = True_ /\ ext_answer # None_
                            THEN lstripDots(lower(ext_answer))
                            ELSE None_ ]

\* ------------------------------------------------------------------------
\* parser.py: the formatter
\* ------------------------------------------------------------------------

\* A JSON value in a field of a record is None (null, or the key is missing),
\* a str, or an int n, written IntVal(n).
IntTag == "#int"

IntVal(n) == << IntTag >> \o StrOfNat(n)

\* isinstance(v, str)
IsStr(v) == v # None_ /\ (v = << >> \/ v[1] # IntTag)

\* bool(v): None, "" and 0 are false
Truthy(v) == v # None_ /\ v # << >> /\ v # IntVal(0)

\* str(v)
str(v) ==
  IF v = None_ THEN <<"N","o","n","e">>
  ELSE IF IsStr(v) THEN v
  ELSE Tail(v)

\* The one character of NAME_REPLACEMENTS, U+13127.
Glyph == "U+13127"

ENABLE_NAME_REPLACEMENTS == TRUE

\* normalize_name: NAME_REPLACEMENTS.get(name, name)
normalize_name(name) ==
  IF ~ENABLE_NAME_REPLACEMENTS THEN name
  ELSE IF name = << Glyph >> THEN <<"w","n","k","i">>
  ELSE name

\* A record without an "author" (or with a null one).
NoAuthor == [isNone |-> TRUE]

Author(global_name, username) ==
  [isNone |-> FALSE, global_name |-> global_name, username |-> username]

\* get_global_name
get_global_name(msg) ==
  LET author == IF msg.author = NoAuthor THEN Author(None_, None_) ELSE msg.author
      name == IF Truthy(author.global_name) THEN author.global_name
              ELSE IF Truthy(author.username) THEN author.username
              ELSE <<"U","n","k","n","o","w","n">>
  IN normalize_name(str(name))

\* norm_text
norm_text(value) ==
  IF ~IsStr(value) THEN None_
  ELSE IF strip(value) # << >> THEN strip(value) ELSE None_

\* The "attachments" of a record: a list of items, or something that is no
\* list (also: no such key). An item is a dict with a filename and a
\* proxy_url (JSON values), or something that is no dict.
NotAList == [isList |-> FALSE, items |-> << >>]

AttList(items) == [isList |-> TRUE, items |-> items]

NotADict == [isDict |-> FALSE]

AttDict(filename, proxy_url) ==
  [isDict |-> TRUE, filename |-> filename, proxy_url |-> proxy_url]

\* extract_attachments: the pairs <<filename, proxy_url>>
extract_attachments(msg) ==
  IF ~msg.attachments.isList THEN << >>
  ELSE
    LET atts == msg.attachments.items
        kept == SelectSeq(atts, LAMBDA att :
                  att.isDict /\ Truthy(att.filename) /\ Truthy(att.proxy_url))
    IN [i \in DOMAIN kept |-> << str(kept[i].filename), str(kept[i].proxy_url) >>]

NO_TIMESTAMP == <<"N","O","_","T","I","M","E","S","T","A","M","P">>

\* The lines of format_message, before they are joined.
format_lines(msg) ==
  LET timestamp == IF Truthy(msg.timestamp) THEN msg.timestamp ELSE NO_TIMESTAMP
      name == get_global_name(msg)
      content == norm_text(msg.content)
      atts == extract_attachments(msg)
  IN << <<"[">> \o str(timestamp) \o <<"]"," ">> \o name >>
     \o (IF content # None_ THEN << content >> ELSE << >>)
     \o Concat([i \in DOMAIN atts |->
                  << <<"A","t","t","a","c","h","m","e","n","t",":"," ">> \o atts[i][1], <<"P","r","o","x","y",":"," ">> \o atts[i][2] >>])
     \o << DIVIDER >>

\* format_message
format_message(msg) == JoinNL(format_lines(msg))

\* A message record (a dict item of the top-level list).
Record(timestamp, author, content, attachments) ==
  [ isDict |-> TRUE, timestamp |-> timestamp, author |-> author,
    content |-> content, attachments |-> attachments ]

SortSentinel == <<"9","9","9","9","-","9","9","-","9","9","T","9","9",":","9","9",":","9","9",".","9","9","9","9","9","9","+","9","9",":","9","9">>

\* A key that takes every string for a timestamp, the empty one too.
sort_key_any_string(m) ==
  IF IsStr(m.timestamp)
    THEN << 0, m.timestamp >>
    ELSE << 1, SortSentinel >>

\* key(m) of sort_messages_chronological
sort_key(m) ==
  IF IsStr(m.timestamp) /\ m.timestamp # << >>
    THEN << 0, m.timestamp >>
    ELSE << 1, SortSentinel >>

\* key(a) < key(b), as Python compares two tuples (int, str)
SortKeyLess(a, b) ==
  \/ sort_key(a)[1] < sort_key(b)[1]
  \/ sort_key(a)[1] = sort_key(b)[1] /\ StrLess(sort_key(a)[2], sort_key(b)[2])

\* sort_messages_chronological
sort_messages_chronological(data) ==
  SortBy(SelectSeq(data, LAMBDA x : x.isDict), SortKeyLess)

\* The top-level value of a JSON file: a list of items, or a value of another
\* type.
JsonList(items) == [type |-> "list", items |-> items]

JsonOther(type) == [type |-> type, items |-> << >>]

\* The text parse_one_file writes to output_path for a top-level list.
output_text(data) ==
  LET msgs == sort_messages_chronological(data)
  IN Concat([i \in DOMAIN msgs |-> format_message(msgs[i]) \o <<"\n">>])

JsonSuffix == <<".","j","s","o","n">>

endswithJson(name) ==
  Len(name) >= Len(JsonSuffix)
  /\ SubSeq(name, Len(name) - Len(JsonSuffix) + 1, Len(name)) = JsonSuffix

\* jp.stem + ".txt"
out_name(name) == SubSeq(name, 1, Len(name) - Len(JsonSuffix)) \o TxtSuffix

\* ------------------------------------------------------------------------
\* State
\* ------------------------------------------------------------------------

VARIABLES
  \* the file system
  input_dir,       \* the Input folder: whether it exists, and its files' JSON
  chats_dir,       \* the Chats folder: whether it exists, and its files' text
  search_results,  \* search_results.txt as written by this run: its writes
  \* the program that runs
  program,         \* which script runs: "searcher", "parser", or "trip"
  stdin,           \* what the user answers at the six prompts of searcher.py
  pc,              \* where main is
  raised,          \* the exception that ended main, if any
  pending,         \* the files the loop over the folder has still to read
  \* searcher.py main
  filters,         \* the filters dict
  messages,        \* all_msgs
  matched,         \* the matched list
  total_chars,     \* compute_total_chars_for_output(matched)
  \* parser.py main and parse_one_file
  msgs,            \* the sorted records of the file parsed last
  total_files,
  total_msgs_written,
  \* one record, formatted and parsed back
  record,          \* the JSON record
  block,           \* format_message(record)
  parsed           \* parse_block of the lines of block before its divider

fsVars == << input_dir, chats_dir, search_results >>

searchVars == << filters, messages, matched, total_chars >>

formatVars == << msgs, total_files, total_msgs_written >>

tripVars == << record, block, parsed >>

vars == << input_dir, chats_dir, search_results, program, stdin, pc, raised, pending,
           filters, messages, matched, total_chars,
           msgs, total_files, total_msgs_written, record, block, parsed >>

NoFilters ==
  [ date |-> None_, name |-> None_, contains_raw |-> None_, contains_pat |-> None_,
    exclude |-> None_, has_attachment |-> None_, attachment_ext |-> None_ ]

NoAnswers ==
  [ date |-> << >>, name |-> << >>, contains |-> << >>, exclude |-> << >>,
    has_attachment |-> << >>, attachment_ext |-> << >> ]

\* A folder that exists and holds these files (a function from name to
\* content).
Folder(files) == [exists |-> TRUE, files |-> files]

NoFolder == [exists |-> FALSE, files |-> << >>]

\* files with one more file, or one file overwritten
WithFile(files, name, content) ==
  [n \in DOMAIN files \cup {name} |-> IF n = name THEN content ELSE files[n]]

\* The state before any main has run a step, on this file system and with
\* these answers and this record at hand.
Start(prog, input, chats, answers, rec) ==
  /\ program = prog
  /\ input_dir = input
  /\ chats_dir = chats
  /\ search_results = [exists |-> FALSE, writes |-> << >>]
  /\ stdin = answers
  /\ pc = "start"
  /\ raised = "none"
  /\ pending = << >>
  /\ filters = NoFilters
  /\ messages = << >>
  /\ matched = << >>
  /\ total_chars = 0
  /\ msgs = << >>
  /\ total_files = 0
  /\ total_msgs_written = 0
  /\ record = rec
  /\ block = None_
  /\ parsed = NoMessage

\* ------------------------------------------------------------------------
\* searcher.py main, step by step
\* ------------------------------------------------------------------------

\* main, up to the FileNotFoundError for a missing Chats folder
SearchStart ==
  /\ program = "searcher"
  /\ pc = "start"
  /\ IF ~chats_dir.exists
       THEN /\ pc' = "failed"
            /\ raised' = "FileNotFoundError"
       ELSE /\ pc' = "prompt"
            /\ UNCHANGED raised
  /\ UNCHANGED << fsVars, program, stdin, pending, searchVars, formatVars, tripVars >>

\* main: the six prompts and the filters dict; then load_all_messages lists
\* the folder
Prompt ==
  /\ pc = "prompt"
  /\ filters' = filters_of(stdin)
  /\ pending' = iter_txt_files(DOMAIN chats_dir.files)
  /\ pc' = "load"
  /\ UNCHANGED << fsVars, program, stdin, raised, messages, matched, total_chars,
                  formatVars, tripVars >>

\* load_all_messages: one turn of its loop
LoadFile ==
  /\ pc = "load"
  /\ pending # << >>
  /\ messages' = messages
                 \o parse_file_into_messages(Head(pending), chats_dir.files[Head(pending)])
  /\ pending' = Tail(pending)
  /\ UNCHANGED << fsVars, program, stdin, pc, raised, filters, matched, total_chars,
                  formatVars, tripVars >>

\* main: filter, sort by timestamp, count
FilterAndSort ==
  /\ pc = "load"
  /\ pending = << >>
  /\ matched' = SortBy(matched_of(messages, filters), TimestampLess)
  /\ total_chars' = compute_total_chars_for_output(matched')
  /\ pc' = "write"
  /\ UNCHANGED << fsVars, program, stdin, raised, pending, filters, messages,
                  formatVars, tripVars >>

\* main: open search_results.txt and write the report
WriteReport ==
  /\ pc = "write"
  /\ search_results' =
       [ exists |-> TRUE,
         writes |-> ReportHead(filters, matched, Len(matched), total_chars)
                    \o write_matched_grouped_by_file(matched) ]
  /\ pc' = "done"
  /\ UNCHANGED << input_dir, chats_dir, program, stdin, raised, pending, searchVars,
                  formatVars, tripVars >>

SearchNext ==
  \/ SearchStart
  \/ Prompt
  \/ LoadFile
  \/ FilterAndSort
  \/ WriteReport

\* ------------------------------------------------------------------------
\* parser.py main, step by step
\* ------------------------------------------------------------------------

\* sorted([p for p in input_dir.glob("*.json") if p.is_file()])
json_files_of(dir) == SortedNames({ n \in dir : endswithJson(n) })

\* main, up to its loop: the two FileNotFoundError and the mkdir between
FormatStart ==
  /\ program = "parser"
  /\ pc = "start"
  /\ IF ~input_dir.exists
       THEN /\ pc' = "failed"
            /\ raised' = "FileNotFoundError"
            /\ UNCHANGED << chats_dir, pending >>
       ELSE /\ chats_dir' = [chats_dir EXCEPT !.exists = TRUE]
            /\ IF json_files_of(DOMAIN input_dir.files) = << >>
                 THEN /\ pc' = "failed"
                      /\ raised' = "FileNotFoundError"
                      /\ UNCHANGED pending
                 ELSE /\ pc' = "parse"
                      /\ pending' = json_files_of(DOMAIN input_dir.files)
                      /\ UNCHANGED raised
  /\ UNCHANGED << input_dir, search_results, program, stdin, searchVars, formatVars, tripVars >>

\* main: one turn of its loop, parse_one_file on the next file
ParseOneFile ==
  /\ pc = "parse"
  /\ pending # << >>
  /\ LET jp == Head(pending)
         data == input_dir.files[jp]
     IN IF data.type # "list"
          THEN /\ pc' = "failed"
               /\ raised' = "ValueError"
               /\ UNCHANGED << chats_dir, pending, formatVars >>
          ELSE /\ msgs' = sort_messages_chronological(data.items)
               /\ chats_dir' = [chats_dir EXCEPT !.files =
                                  WithFile(@, out_name(jp), output_text(data.items))]
               /\ total_files' = total_files + 1
               /\ total_msgs_written' = total_msgs_written + Len(msgs')
               /\ pending' = Tail(pending)
               /\ UNCHANGED << pc, raised >>
  /\ UNCHANGED << input_dir, search_results, program, stdin, searchVars, tripVars >>

\* main: after the loop
FormatDone ==
  /\ pc = "parse"
  /\ pending = << >>
  /\ pc' = "done"
  /\ UNCHANGED << fsVars, program, stdin, raised, pending, searchVars, formatVars, tripVars >>

FormatNext ==
  \/ FormatStart
  \/ ParseOneFile
  \/ FormatDone

\* ------------------------------------------------------------------------
\* One record through format_message and back through parse_block
\* ------------------------------------------------------------------------

FormatRecord ==
  /\ program = "trip"
  /\ pc = "start"
  /\ block' = format_message(record)
  /\ pc' = "formatted"
  /\ UNCHANGED << fsVars, program, stdin, raised, pending, searchVars, formatVars,
                  record, parsed >>

\* The lines of a block before its last line, the divider.
LinesBeforeDivider(b) ==
  LET lines == splitlines(b, FALSE)
  IN SubSeq(lines, 1, Len(lines) - 1)

ParseBack ==
  /\ pc = "formatted"
  /\ parsed' = parse_block(LinesBeforeDivider(block), <<"a",".","t","x","t">>, 1)
  /\ pc' = "done"
  /\ UNCHANGED << fsVars, program, stdin, raised, pending, searchVars, formatVars,
                  record, block >>

TripNext ==
  \/ FormatRecord
  \/ ParseBack

\* ------------------------------------------------------------------------
\* Inputs: Chats folders and answers
\* ------------------------------------------------------------------------

\* The text of a file with these lines, each ended by a line break.
TextOfLines(lines) == Concat([i \in DOMAIN lines |-> lines[i] \o <<"\n">>])

\* The lines of an archive file that holds these blocks, a divider after each.
LinesOfBlocks(blocks) == Concat([i \in DOMAIN blocks |-> blocks[i] \o << DIVIDER >>])

\* All sequences over S of length at most n.
SeqsUpTo(S, n) == UNION { [1 .. k -> S] : k \in 0 .. n }

FileA == <<"a",".","t","x","t">>

FileB == <<"B",".","t","x","t">>

FileNotes == <<"n",".","m","d">>

\* -- a search over two archive files ------------------------------------

MaxBlocks == 2

SearchBlocks ==
  { << <<"[","2","0","2","4","-","0","1","-","0","2","]"," ","A","l">>, <<"a"," ","c","a","t"," ","s","a","t">> >>,
    << <<"[","2","0","2","4","-","0","1","-","0","1","]"," ","B","o">>, <<"c","a","t","e","g","o","r","y">>, <<"A","t","t","a","c","h","m","e","n","t",":"," ","a",".","P","N","G">>, <<"P","r","o","x","y",":"," ","u">> >>,
    << <<"o","o","p","s">> >> }

\* The texts an archive file may hold; NoText stands for "no such file".
NoText == <<"NoText">>

SearchTexts ==
  { TextOfLines(LinesOfBlocks(b)) : b \in SeqsUpTo(SearchBlocks, MaxBlocks) }

SearchFolders ==
  { NoFolder, Folder(<< >>) }
  \cup
  { Folder([n \in ({FileNotes}
                   \cup (IF ta = NoText THEN {} ELSE {FileA})
                   \cup (IF tb = NoText THEN {} ELSE {FileB})) |->
              IF n = FileA THEN ta ELSE IF n = FileB THEN tb ELSE <<"n","o","t","e","s","\n">>]) :
      ta \in SearchTexts \cup {NoText}, tb \in SearchTexts \cup {NoText} }

SearchAnswers ==
  { NoAnswers, [NoAnswers EXCEPT !.name = <<" ","A","L"," ">>] }

InitSearch ==
  \E dir \in SearchFolders, answers \in SearchAnswers :
    Start("searcher", NoFolder, dir, answers, NotADict)

SpecSearch == InitSearch /\ [][SearchNext]_vars

\* ------------------------------------------------------------------------
\* Properties of a search run
\* ------------------------------------------------------------------------

\* The sum of a sequence of numbers.
RECURSIVE SumSeq(_)
SumSeq(ns) ==
  IF ns = << >> THEN 0
  ELSE IF Len(ns) = 1 THEN ns[1]
  ELSE SumSeq(SubSeq(ns, 1, Len(ns) \div 2))
       + SumSeq(SubSeq(ns, Len(ns) \div 2 + 1, Len(ns)))

\* Whether m is an element of the sequence s.
InSeq(m, s) == \E i \in DOMAIN s : s[i] = m

\* The writes of the report body: those after the writes of main itself.
BodyWrites ==
  SubSeq(search_results.writes,
         Len(ReportHead(filters, matched, Len(matched), total_chars)) + 1,
         Len(search_results.writes))

ReportBodyLen == Len(Concat(BodyWrites))

\* The positions of matched before which a file banner is written: the first,
\* and every one whose file differs from that of the message before it.
BannerPositions ==
  { i \in DOMAIN matched : i = 1 \/ matched[i].source_file # matched[i - 1].source_file }

\* The characters of all banners: two lines of "=", the file name, and four
\* line breaks each.
BannerChars ==
  SumSeq([i \in DOMAIN matched |->
            IF i \in BannerPositions
              THEN 2 * BannerLen + Len(matched[i].source_file) + 4 ELSE 0])

\* C4, as claimed: the number of characters of the report body written by
\* write_matched_grouped_by_file equals the value compute_total_chars_for_output
\* returned for the same matched sequence.
C4_BodyLengthIsTotal ==
  pc = "done" => ReportBodyLen = total_chars

\* What the two do agree on: the report body, less the characters of the
\* file banners in it, has as many characters as were counted.
BodyLengthLessBannersIsTotal ==
  pc = "done" => ReportBodyLen - BannerChars = total_chars

\* The place of a loaded message in load order.
LoadPos(m) == CHOOSE k \in DOMAIN messages : messages[k] = m

\* C6: the matched sequence is exactly the loaded Messages that satisfy the
\* filters, ascending by timestamp under plain string comparison; Messages
\* with equal timestamps keep their load order, which is files in sorted
\* file-name order and, within one file, blocks in line order.
C6_MatchedOrder ==
  /\ \A i, j \in DOMAIN messages :
       i < j => \/ StrLess(messages[i].source_file, messages[j].source_file)
                \/ /\ messages[i].source_file = messages[j].source_file
                   /\ messages[i].start_line < messages[j].start_line
  /\ pc \in {"write", "done"} =>
       /\ \A i \in DOMAIN messages :
            InSeq(messages[i], matched) <=> matches_filters(messages[i], filters)
       /\ \A i \in DOMAIN matched : InSeq(matched[i], messages)
       /\ \A i, j \in DOMAIN matched :
            i < j => \/ StrLess(matched[i].timestamp, matched[j].timestamp)
                     \/ /\ matched[i].timestamp = matched[j].timestamp
                        /\ LoadPos(matched[i]) < LoadPos(matched[j])

\* A run in which sorting changed the order, two matches of different files
\* have the same timestamp, and the filter dropped a loaded message.
C6_Witness ==
  /\ pc = "done"
  /\ \E i, j \in DOMAIN messages :
       /\ i < j
       /\ InSeq(messages[i], matched) /\ InSeq(messages[j], matched)
       /\ StrLess(messages[j].timestamp, messages[i].timestamp)
  /\ \E i, j \in DOMAIN matched :
       /\ i < j
       /\ matched[i].timestamp = matched[j].timestamp
       /\ matched[i].source_file # matched[j].source_file

\* C10, as claimed: when the Chats folder exists but holds no .txt file, the
\* search run aborts with an error and writes no report file.
C10_EmptyArchiveIsFatal ==
  (chats_dir.exists /\ iter_txt_files(DOMAIN chats_dir.files) = << >>)
    => (pc # "done" /\ ~search_results.exists)

\* ------------------------------------------------------------------------
\* A search run over one archive file of arbitrary lines
\* ------------------------------------------------------------------------

MaxLines == 4

\* Lines an archive file may hold: a header, a line that is no header, a
\* header without a name, a blank line, a divider, a divider in spaces.
TokenizeLines ==
  { <<"[","2","0","2","4","-","0","1","-","0","2","]"," ","A","l">>, <<"o","o","p","s">>, <<"[","x","]">>, << >>, DIVIDER,
    <<" ">> \o DIVIDER \o <<" ">> }

InitTokenize ==
  \E lines \in SeqsUpTo(TokenizeLines, MaxLines) :
    Start("searcher", NoFolder, Folder([n \in {FileA} |-> TextOfLines(lines)]),
          NoAnswers, NotADict)

SpecTokenize == InitTokenize /\ [][SearchNext]_vars

\* The lines of the one archive file.
FileLines == splitlines(chats_dir.files[FileA], FALSE)

IsDividerLine(l) == strip(l) = DIVIDER

IsBlankLine(l) == strip(l) = << >>

\* The divider-separated blocks of the file, each as the numbers of its first
\* and last line: the maximal runs of lines that are no dividers.
FileBlocks ==
  { b \in (DOMAIN FileLines) \X (DOMAIN FileLines) :
      /\ b[1] <= b[2]
      /\ \A k \in b[1] .. b[2] : ~IsDividerLine(FileLines[k])
      /\ b[1] = 1 \/ IsDividerLine(FileLines[b[1] - 1])
      /\ b[2] = Len(FileLines) \/ IsDividerLine(FileLines[b[2] + 1]) }

\* The blocks with at least one non-blank line.
NonBlankBlocks ==
  { b \in FileBlocks : \E k \in b[1] .. b[2] : ~IsBlankLine(FileLines[k]) }

\* Whether a line matches the header pattern.
HeaderMatches(l) == parse_header(l) # <<None_, None_>>

\* The blocks whose first line fails the header pattern.
HeaderFailures == { b \in NonBlankBlocks : ~HeaderMatches(FileLines[b[1]]) }

\* The number of the first non-blank line of a block.
FirstNonBlank(b) ==
  CHOOSE k \in b[1] .. b[2] :
    /\ ~IsBlankLine(FileLines[k])
    /\ \A j \in b[1] .. (k - 1) : IsBlankLine(FileLines[j])

\* C5: once the file is loaded, the number of divider-separated blocks with
\* at least one non-blank line equals the number of Messages plus the number
\* of blocks whose first line fails the header pattern; no error is raised,
\* every Message is that of a block whose first line is a header (none is
\* made of part of a failed block), and every such block has its Message, in
\* line order, whatever other blocks the file holds and whether or not a
\* divider follows the last block.
C5_DropAccounting ==
  (program = "searcher" /\ pc \in {"write", "done"}) =>
    /\ raised = "none"
    /\ Cardinality(NonBlankBlocks) = Len(messages) + Cardinality(HeaderFailures)
    /\ \A b \in NonBlankBlocks \ HeaderFailures :
         \E i \in DOMAIN messages :
           /\ messages[i].start_line = FirstNonBlank(b)
           /\ << messages[i].timestamp, messages[i].name >> = parse_header(FileLines[b[1]])
    /\ \A i \in DOMAIN messages :
         \E b \in NonBlankBlocks \ HeaderFailures :
           messages[i].start_line = FirstNonBlank(b)
    /\ \A i, j \in DOMAIN messages :
         i < j => messages[i].start_line < messages[j].start_line

\* A file whose first block fails the header pattern, and whose last block
\* is a Message although no divider follows it.
C5_Witness ==
  /\ program = "searcher" /\ pc = "done"
  /\ \E b \in HeaderFailures : b[1] = 1
  /\ \E b \in NonBlankBlocks \ HeaderFailures :
       /\ b[2] = Len(FileLines)
       /\ messages # << >>
       /\ messages[Len(messages)].start_line = FirstNonBlank(b)

\* C12: once the file is loaded, the start_line of every Message is the
\* number of the first non-blank line of a divider-separated block of the
\* file, and that line matches the header pattern and carries the Message's
\* timestamp and name; no two Messages are of one block, and no Message has
\* its start_line in a block made only of blank lines.
C12_StartLineIsHeader ==
  (program = "searcher" /\ pc \in {"write", "done"}) =>
    /\ \A i \in DOMAIN messages :
         /\ \E b \in NonBlankBlocks : messages[i].start_line = FirstNonBlank(b)
         /\ HeaderMatches(FileLines[messages[i].start_line])
         /\ parse_header(FileLines[messages[i].start_line])
              = << messages[i].timestamp, messages[i].name >>
    /\ \A i, j \in DOMAIN messages :
         i # j => messages[i].start_line # messages[j].start_line
    /\ \A b \in FileBlocks \ NonBlankBlocks :
         \A i \in DOMAIN messages : messages[i].start_line \notin b[1] .. b[2]

\* A file that begins with a block made only of blank lines, and has a
\* Message of two lines after it: the header is not the first line of the
\* file, and not the last non-blank line of its block.
C12_Witness ==
  /\ program = "searcher" /\ pc = "done"
  /\ \E b \in FileBlocks \ NonBlankBlocks : b[1] = 1
  /\ \E i \in DOMAIN messages :
       /\ messages[i].start_line > 1
       /\ messages[i].content # None_

\* ------------------------------------------------------------------------
\* A search run over one archive file, with every kind of answer
\* ------------------------------------------------------------------------

FilterBlocks ==
  << << <<"[","2","0","2","4","-","0","1","-","0","2","]"," ","A","l">>, <<"a"," ","c","a","t"," ","s","a","t">>, <<"A","t","t","a","c","h","m","e","n","t",":"," ","d",".","p","n","g">>, <<"P","r","o","x","y",":"," ","w">> >>,
     << <<"[","2","0","2","4","-","0","1","-","0","2","]"," ","B","o">>, <<"c","a","t","e","g","o","r","y">>, <<"A","t","t","a","c","h","m","e","n","t",":"," ","a",".","P","N","G">>, <<"P","r","o","x","y",":"," ","u">> >>,
     << <<"[","2","0","2","4","-","0","1","-","0","1","]"," ","A","l">>, <<"c","o","n","c","a","t","e","n","a","t","e">>, <<"A","t","t","a","c","h","m","e","n","t",":"," ","b",".","t","a","r",".","g","z">>, <<"P","r","o","x","y",":"," ","v">>,
        <<"A","t","t","a","c","h","m","e","n","t",":"," ","R","E","A","D","M","E">> >>,
     << <<"[","2","0","2","4","-","0","1","-","0","2","]"," ","a","l">>, <<"C","a","t","!"," ","a",".","c">> >>,
     << <<"[","2","0","2","4","-","0","1","-","0","2","]"," ","A","l">>, <<"a","b","c"," ","c","a","t">>, <<"A","t","t","a","c","h","m","e","n","t",":"," ","c",".","p","n","g">> >>,
     << <<"[","x","]"," ","B","o">> >>,
     << <<"[","2","0","2","4","-","0","1","-","0","2","]"," ","A","l">>, <<"m","y","_","c","a","t"," ","c","a","t","9">> >>,
     << <<"[","2","0","2","4","-","0","1","-","0","2","]"," ","A","l">>, <<"t","h","e"," ","\"","c","a","t","\""," ","e">> >> >>

FilterFolder == Folder([n \in {FileA} |-> TextOfLines(LinesOfBlocks(FilterBlocks))])

FilterAnswers ==
  [ date : { << >>, <<" ","2","/","1","/","2","0","2","4">>, <<"2","0","2","4","-","0","1","-","0","2">> },
    name : { << >>, <<"A","L">>, <<"b","o"," ">> },
    contains : { << >>, <<"c","a","t">>, <<"\"","c","a","t","\"">>, <<"a",".","c">>, <<"\"","a",".","c","\"">>, <<"\"","\"">>, <<"\"">>, <<" ","C","A","T"," ">> },
    exclude : { << >>, <<"S","A","T">> },
    has_attachment : { << >>, <<"y">>, <<"N","o">> },
    attachment_ext : { << >>, <<".","P","N","G">>, <<"g","z">> } ]

InitFilter ==
  \E answers \in FilterAnswers :
    Start("searcher", NoFolder, FilterFolder, answers, NotADict)

SpecFilter == InitFilter /\ [][SearchNext]_vars

\* The text the content criteria look at: absent content counts as empty.
HayOf(m) == IF m.content = None_ THEN << >> ELSE m.content

\* Each criterion on its own.
DateHolds(m, f) == m.date = f.date

NameHolds(m, f) == lower(m.name) = lower(f.name)

ContainsHolds(m, f) == re_search(f.contains_pat, HayOf(m))

ExcludeHolds(m, f) ==
  ~ \E k \in 0 .. Len(HayOf(m)) - Len(f.exclude) :
      lower(SubSeq(HayOf(m), k + 1, k + Len(f.exclude))) = lower(f.exclude)

HasAttachmentHolds(m, f) == (f.has_attachment = True_) <=> (m.attachments # << >>)

AttachmentExtHolds(m, f) ==
  \E i \in DOMAIN m.attachments :
    m.attachments[i].ext = lstripDots(lower(f.attachment_ext))

\* Every criterion that is not null holds.
AllCriteriaHold(m, f) ==
  /\ f.date = None_ \/ DateHolds(m, f)
  /\ f.name = None_ \/ NameHolds(m, f)
  /\ f.contains_pat = None_ \/ ContainsHolds(m, f)
  /\ f.exclude = None_ \/ ExcludeHolds(m, f)
  /\ f.has_attachment = None_ \/ HasAttachmentHolds(m, f)
  /\ f.attachment_ext = None_ \/ AttachmentExtHolds(m, f)

Criteria ==
  {"date", "name", "contains_pat", "exclude", "has_attachment", "attachment_ext"}

\* The filter record with one criterion replaced by null.
Relaxed(f, c) == [k \in DOMAIN f |-> IF k = c THEN None_ ELSE f[k]]

\* C2: once the messages are filtered, a loaded Message is among the matched
\* ones if and only if each criterion that is not null holds on its own; and
\* every Message that matches the filters also matches them with any one
\* criterion replaced by null.
C2_FilterConjunction ==
  (program = "searcher" /\ pc \in {"write", "done"}) =>
    \A i \in DOMAIN messages :
      /\ InSeq(messages[i], matched) <=> AllCriteriaHold(messages[i], filters)
      /\ matches_filters(messages[i], filters) <=> AllCriteriaHold(messages[i], filters)
      /\ \A c \in Criteria :
           matches_filters(messages[i], filters)
             => matches_filters(messages[i], Relaxed(filters, c))

\* A run with all six criteria given, in which a Message matches, another
\* fails only the name criterion, and a third matches only once the exclude
\* criterion is replaced by null.
C2_Witness ==
  /\ program = "searcher" /\ pc = "done"
  /\ \A c \in Criteria : filters[c] # None_
  /\ matched # << >>
  /\ \E i \in DOMAIN messages :
       /\ ~NameHolds(messages[i], filters)
       /\ AllCriteriaHold(messages[i], Relaxed(filters, "name"))
  /\ \E i \in DOMAIN messages :
       /\ ~matches_filters(messages[i], filters)
       /\ matches_filters(messages[i], Relaxed(filters, "exclude"))

\* Whether the text t occurs in c, ignoring case, after the first k characters.
OccursAt(t, c, k) ==
  k + Len(t) <= Len(c) /\ lower(SubSeq(c, k + 1, k + Len(t))) = lower(t)

\* t occurs in c where the character before it and the character after it
\* are each absent or no letter, digit or underscore.
OccursAsToken(t, c) ==
  \E k \in 0 .. Len(c) :
    /\ OccursAt(t, c, k)
    /\ k = 0 \/ ~IsWord(c[k])
    /\ k + Len(t) = Len(c) \/ ~IsWord(c[k + Len(t) + 1])

OccursAsSubstring(t, c) == \E k \in 0 .. Len(c) : OccursAt(t, c, k)

IsQuoted(s) == Len(s) >= 2 /\ s[1] = "\"" /\ s[Len(s)] = "\""

\* C3: the matcher compiled from a quoted input accepts a content iff the
\* enclosed text occurs in it, ignoring case, as a token; the matcher
\* compiled from any other input accepts a content iff the input occurs in it
\* as a literal substring, ignoring case.
C3_PatternModes ==
  (program = "searcher" /\ pc \in {"write", "done"} /\ filters.contains_raw # None_) =>
    \A i \in DOMAIN messages :
      re_search(filters.contains_pat, HayOf(messages[i]))
        <=> IF IsQuoted(filters.contains_raw)
              THEN OccursAsToken(SubSeq(filters.contains_raw, 2, Len(filters.contains_raw) - 1),
                                 HayOf(messages[i]))
              ELSE OccursAsSubstring(filters.contains_raw, HayOf(messages[i]))

\* The quoted input "cat" as the only criterion: 'a cat sat' is matched,
\* 'category' and 'concatenate' are loaded and not matched.
C3_Witness ==
  /\ program = "searcher" /\ pc = "done"
  /\ filters.contains_raw = <<"\"","c","a","t","\"">>
  /\ \E i \in DOMAIN matched : matched[i].content = <<"a"," ","c","a","t"," ","s","a","t">>
  /\ \E i, j \in DOMAIN messages :
       /\ messages[i].content = <<"c","a","t","e","g","o","r","y">>
       /\ messages[j].content = <<"c","o","n","c","a","t","e","n","a","t","e">>
       /\ ~InSeq(messages[i], matched) /\ ~InSeq(messages[j], matched)

\* ------------------------------------------------------------------------
\* A search run over files with many blocks
\* ------------------------------------------------------------------------

MaxPerFile == 22

MaxOther == 2

\* The i-th block of a long file: its lines run against its timestamps, and
\* its names alternate.
LongBlock(i) ==
  << <<"[","2","0","2","4","-","0","1","-">> \o ZeroPad(40 - i, 2) \o <<"]"," ">> \o (IF i % 2 = 0 THEN <<"A","l">> ELSE <<"B","o">>),
     <<"m">> >>

\* The i-th block of the other file.
OtherBlock(i) ==
  << <<"[","2","0","2","4","-","0","1","-">> \o ZeroPad(30 - 5 * i, 2) \o <<"]"," ","A","l">>, <<"x">> >>

SummaryFolders ==
  { Folder([n \in {FileA, FileB} |->
              IF n = FileA
                THEN TextOfLines(LinesOfBlocks([i \in 1 .. na |-> LongBlock(i)]))
                ELSE TextOfLines(LinesOfBlocks([i \in 1 .. nb |-> OtherBlock(i)]))]) :
      na \in 0 .. MaxPerFile, nb \in 0 .. MaxOther }

InitSummary ==
  \E dir \in SummaryFolders, answers \in SearchAnswers :
    Start("searcher", NoFolder, dir, answers, NotADict)

SpecSummary == InitSummary /\ [][SearchNext]_vars

\* The files with a match, the places of a file's matches, their number and
\* their lines.
SummaryFiles == { matched[i].source_file : i \in DOMAIN matched }

MatchesIn(f) == { i \in DOMAIN matched : matched[i].source_file = f }

CountIn(f) == Cardinality(MatchesIn(f))

LinesIn(f) == { matched[i].start_line : i \in MatchesIn(f) }

\* g stands before f in the summary: more matches, or as many and a smaller
\* lower-cased name.
SummaryBefore(g, f) ==
  \/ CountIn(g) > CountIn(f)
  \/ CountIn(g) = CountIn(f) /\ StrLess(lower(g), lower(f))

\* The file of the k-th line of the summary.
FileAt(k) ==
  CHOOSE f \in SummaryFiles :
    Cardinality({ g \in SummaryFiles : SummaryBefore(g, f) }) = k - 1

\* The k-th smallest number of a set.
KthSmallest(S, k) == CHOOSE x \in S : Cardinality({ y \in S : y < x }) = k - 1

\* The lines listed for a file: all of them or the 20 smallest, ascending.
Listed(f) ==
  [k \in 1 .. (IF CountIn(f) <= 20 THEN CountIn(f) ELSE 20) |-> KthSmallest(LinesIn(f), k)]

\* Numbers in decimal, separated by a comma and a space.
RECURSIVE CommaList(_)
CommaList(nums) ==
  IF nums = << >> THEN << >>
  ELSE IF Len(nums) = 1 THEN StrOfNat(nums[1])
  ELSE CommaList(SubSeq(nums, 1, Len(nums) - 1)) \o <<","," ">> \o StrOfNat(nums[Len(nums)])

ExpectedLine(f) ==
  <<"F","o","u","n","d"," ">> \o StrOfNat(CountIn(f)) \o <<" ","e","n","t","r","i","e","s"," ","i","n"," ">> \o f \o <<" ","o","n"," ","l","i","n","e","s"," ">>
  \o CommaList(Listed(f))
  \o (IF CountIn(f) > 20
        THEN <<","," ",".",".","."," ","(","+">> \o StrOfNat(CountIn(f) - 20) \o <<" ","m","o","r","e",")">>
        ELSE << >>)

ExpectedSummary ==
  <<"P","e","r","-","f","i","l","e"," ","s","u","m","m","a","r","y",":","\n">>
  \o Concat([k \in 1 .. Cardinality(SummaryFiles) |-> ExpectedLine(FileAt(k)) \o <<"\n">>])

\* The summary as main wrote it to the report: its third write.
SummaryWritten == search_results.writes[3]

\* C7: the summary written to the report has one line per file with a match,
\* ordered by descending match count and then by ascending lower-cased file
\* name; each line states the file's match count and its matches' start
\* lines ascending, all of them when there are at most 20, otherwise the 20
\* smallest followed by '... (+K more)' with K = count - 20; the counts sum
\* to the number of matches.
C7_FileSummary ==
  (program = "searcher" /\ pc = "done" /\ matched # << >>) =>
    /\ SummaryWritten = ExpectedSummary
    /\ SumSeq([k \in 1 .. Cardinality(SummaryFiles) |-> CountIn(FileAt(k))]) = Len(matched)

\* A report on two files, the first line for a.txt with more than 20 matches
\* that stand in matched against their line order, B.txt after it.
C7_Witness ==
  /\ program = "searcher" /\ pc = "done"
  /\ SummaryFiles = {FileA, FileB}
  /\ CountIn(FileA) > 20
  /\ FileAt(1) = FileA
  /\ \E i, j \in MatchesIn(FileA) : i < j /\ matched[i].start_line > matched[j].start_line

\* ------------------------------------------------------------------------
\* A formatter run
\* ------------------------------------------------------------------------

MaxItems == 3

FileAJson == <<"a",".","j","s","o","n">>

FileBJson == <<"b",".","j","s","o","n">>

\* Items a top-level list may hold: records with a timestamp, with an empty
\* one, with none, with a number for one, and an item that is no record.
FormatItems ==
  { Record(<<"b">>, NoAuthor, None_, NotAList),
    Record(<<"a">>, Author(<<"A","l">>, None_), <<"h","i">>, NotAList),
    Record(<< >>, NoAuthor, <<"x">>, NotAList),
    Record(None_, NoAuthor, <<"y">>, NotAList),
    Record(IntVal(5), NoAuthor, <<"z">>, NotAList),
    NotADict }

FormatValuesA ==
  { JsonList(items) : items \in SeqsUpTo(FormatItems, MaxItems) } \cup { JsonOther("dict") }

FormatValuesB ==
  { JsonList(<< Record(<<"c">>, NoAuthor, None_, NotAList) >>), JsonOther("str") }

FormatFolders ==
  { NoFolder, Folder(<< >>), Folder([n \in {FileNotes} |-> JsonOther("str")]) }
  \cup { Folder([n \in {FileAJson} |-> a]) : a \in FormatValuesA }
  \cup { Folder([n \in {FileAJson, FileBJson} |-> IF n = FileAJson THEN a ELSE b]) :
           a \in FormatValuesA, b \in FormatValuesB }

InitFormat ==
  \E input \in FormatFolders, chats \in {NoFolder, Folder(<< >>)} :
    Start("parser", input, chats, NoAnswers, NotADict)

SpecFormat == InitFormat /\ [][FormatNext]_vars

\* The input file parse_one_file sorted last, and the records of its list.
LastParsed ==
  LET all == json_files_of(DOMAIN input_dir.files)
  IN all[Len(all) - Len(pending)]

LastRecords == SelectSeq(input_dir.files[LastParsed].items, LAMBDA x : x.isDict)

Occurrences(r, s) == Cardinality({ i \in DOMAIN s : s[i] = r })

\* msgs holds the records of the input, each as often as the input does.
SameRecords ==
  /\ Len(msgs) = Len(LastRecords)
  /\ \A i \in DOMAIN msgs : Occurrences(msgs[i], msgs) = Occurrences(msgs[i], LastRecords)

\* A record whose timestamp is a string.
HasStringTimestamp(m) == IsStr(m.timestamp)

\* A record whose timestamp is a string that is not empty.
HasTimestamp(m) == IsStr(m.timestamp) /\ m.timestamp # << >>

\* C8, as claimed: the sorted records of the file are its records in
\* ascending order of timestamp under plain string comparison; every record
\* whose timestamp is missing or not a string comes after all records whose
\* timestamp is a string, and such records keep their original relative order.
C8_AsClaimed ==
  (program = "parser" /\ total_files > 0) =>
    /\ SameRecords
    /\ \A i, j \in DOMAIN msgs :
         i < j =>
           /\ ~HasStringTimestamp(msgs[i]) => ~HasStringTimestamp(msgs[j])
           /\ (HasStringTimestamp(msgs[i]) /\ HasStringTimestamp(msgs[j]))
                => ~StrLess(msgs[j].timestamp, msgs[i].timestamp)
    /\ SelectSeq(msgs, LAMBDA m : ~HasStringTimestamp(m))
         = SelectSeq(LastRecords, LAMBDA m : ~HasStringTimestamp(m))

\* C8, amended: the sorted records of the file are its records, those with a
\* timestamp that is a non-empty string first, in ascending order of
\* timestamp under plain string comparison; every record whose timestamp is
\* missing, not a string, or the empty string comes after them, and such
\* records keep their original relative order.
C8_ChronologicalOrder ==
  (program = "parser" /\ total_files > 0) =>
    /\ SameRecords
    /\ \A i, j \in DOMAIN msgs :
         i < j =>
           /\ ~HasTimestamp(msgs[i]) => ~HasTimestamp(msgs[j])
           /\ (HasTimestamp(msgs[i]) /\ HasTimestamp(msgs[j]))
                => ~StrLess(msgs[j].timestamp, msgs[i].timestamp)
    /\ SelectSeq(msgs, LAMBDA m : ~HasTimestamp(m))
         = SelectSeq(LastRecords, LAMBDA m : ~HasTimestamp(m))

\* A file whose list begins with a record without a timestamp and a record
\* with an empty one, then a timestamped record: the sort moved the third
\* before the two, which kept their order.
C8_Witness ==
  /\ program = "parser" /\ total_files > 0
  /\ Len(msgs) = 3
  /\ ~HasTimestamp(LastRecords[1]) /\ LastRecords[2].timestamp = << >>
  /\ LastRecords[1] # LastRecords[2]
  /\ HasTimestamp(LastRecords[3])
  /\ msgs = << LastRecords[3], LastRecords[1], LastRecords[2] >>

\* C9, as claimed: when the top-level value of an input file is not a list,
\* the run aborts with the error and it has produced no output text file,
\* neither for that file nor for any file before it.
C9_NonArrayNoOutput ==
  (program = "parser" /\ raised = "ValueError") =>
    /\ pc = "failed"
    /\ DOMAIN chats_dir.files = {}
    /\ total_files = 0

\* ------------------------------------------------------------------------
\* Records through format_message and parse_block
\* ------------------------------------------------------------------------

TripTimestamps ==
  { <<"2","0","2","4","-","0","1","-","0","1","T","0","0",":","0","0">>, << >>, None_, IntVal(5), <<"a","]","b">> }

TripAuthors ==
  { NoAuthor, Author(<<"A","l">>, None_), Author(None_, <<"b","o">>), Author(<<"A","l"," ">>, <<"x">>),
    Author(<< Glyph >>, None_) }

TripContents ==
  { None_, <<" ","h","i"," ">>, <<"a","\n","\n","b">>, <<"A","t","t","a","c","h","m","e","n","t",":"," ","x">>, IntVal(7), <<" "," ">> }

TripAttachments ==
  { NotAList, AttList(<< >>), AttList(<< AttDict(<<"f",".","p","n","g">>, <<"u">>) >>),
    AttList(<< AttDict(<<"f",".","p","n","g">>, None_), NotADict, AttDict(<<"g">>, <<"v">>),
               AttDict(<<"h",".","G","Z">>, <<"w">>) >>),
    AttList(<< AttDict(<<" ","f"," ">>, <<"u">>) >>) }

InitTrip ==
  \E ts \in TripTimestamps, author \in TripAuthors, content \in TripContents,
     atts \in TripAttachments :
    Start("trip", NoFolder, NoFolder, NoAnswers, Record(ts, author, content, atts))

SpecTrip == InitTrip /\ [][TripNext]_vars

\* The attachments of the parsed Message as pairs of file name and proxy URL.
ParsedAttachments ==
  [i \in DOMAIN parsed.attachments |->
     << parsed.attachments[i].filename, parsed.attachments[i].proxy_url >>]

\* C1, as claimed: the block format_message makes of a record, parsed by
\* parse_block, is a Message whose name is the record's resolved and
\* normalized display name, whose content is the record's trimmed content
\* (absent when that is empty), and whose attachments are, in order, the
\* record's attachments that have both a filename and a proxy_url.
C1_RoundTrip ==
  (program = "trip" /\ pc = "done") =>
    /\ parsed # NoMessage
    /\ parsed.name = get_global_name(record)
    /\ parsed.content = norm_text(record.content)
    /\ ParsedAttachments = extract_attachments(record)

\* A record without a line break, a leading "Attachment:" or "Proxy:" in its
\* content, without a "]" in its timestamp, and without a space at either
\* end of its name or of a file name or URL.
IsPlainRecord ==
  /\ str(record.timestamp) = strip(str(record.timestamp))
  /\ "]" \notin Range(str(record.timestamp))
  /\ get_global_name(record) = strip(get_global_name(record))
  /\ norm_text(record.content) # None_ =>
       /\ "\n" \notin Range(norm_text(record.content))
       /\ ~startswith(norm_text(record.content), AttachmentPrefix)
       /\ ~startswith(norm_text(record.content), ProxyPrefix)
  /\ \A i \in DOMAIN extract_attachments(record) :
       /\ extract_attachments(record)[i][1] = strip(extract_attachments(record)[i][1])
       /\ extract_attachments(record)[i][2] = strip(extract_attachments(record)[i][2])

\* What does hold: a plain record comes back as the claim says.
RoundTripOfPlainRecords ==
  (program = "trip" /\ pc = "done" /\ IsPlainRecord) =>
    /\ parsed # NoMessage
    /\ parsed.name = get_global_name(record)
    /\ parsed.content = norm_text(record.content)
    /\ ParsedAttachments = extract_attachments(record)

\* ------------------------------------------------------------------------
\* The blocks and banners of the report body
\* ------------------------------------------------------------------------

\* The place among the writes of the report body of the block of matched[i]:
\* every match before it took two writes, every banner up to it three.
BlockWriteAt(i) ==
  2 * (i - 1) + 3 * Cardinality({ j \in BannerPositions : j <= i }) + 1

\* matched[i] is the last of its file in the sorted sequence.
IsLastOfFile(i) ==
  \A j \in DOMAIN matched : j > i => matched[j].source_file # matched[i].source_file

\* C11: in the written report body, the block of a match is its raw_block
\* without the trailing divider line when the match is its file's last
\* occurrence in the timestamp-sorted sequence, and its raw_block unchanged
\* otherwise, so that exactly one block per file is stripped, also when the
\* file's matches are interleaved with another file's; a banner is written
\* before a block exactly at the positions where source_file differs from
\* the previous message's.
C11_StripLastOfFile ==
  (program = "searcher" /\ pc = "done") =>
    /\ Len(BodyWrites) = 2 * Len(matched) + 3 * Cardinality(BannerPositions)
    /\ \A i \in DOMAIN matched :
         /\ IF IsLastOfFile(i)
              THEN BodyWrites[BlockWriteAt(i)] \o DIVIDER \o <<"\n">> = matched[i].raw_block
              ELSE BodyWrites[BlockWriteAt(i)] = matched[i].raw_block
         /\ BodyWrites[BlockWriteAt(i) + 1] = <<"\n">>
         /\ i \in BannerPositions =>
              SubSeq(BodyWrites, BlockWriteAt(i) - 3, BlockWriteAt(i) - 1)
                = << Rep("=", BannerLen) \o <<"\n">>,
                     matched[i].source_file \o <<"\n">>,
                     Rep("=", BannerLen) \o <<"\n", "\n">> >>
    /\ \A f \in { matched[i].source_file : i \in DOMAIN matched } :
         Cardinality({ i \in DOMAIN matched :
                         /\ matched[i].source_file = f
                         /\ BodyWrites[BlockWriteAt(i)] # matched[i].raw_block }) = 1

\* A report in which a file has two sections with another file's section
\* between them: three banners for two files, the block of the first section
\* written with its divider, the block of the last section without.
C11_Witness ==
  /\ program = "searcher" /\ pc = "done"
  /\ Len(matched) = 3
  /\ matched[1].source_file = matched[3].source_file
  /\ matched[1].source_file # matched[2].source_file
  /\ BannerPositions = {1, 2, 3}
  /\ BodyWrites[BlockWriteAt(1)] = matched[1].raw_block
  /\ BodyWrites[BlockWriteAt(3)] # matched[3].raw_block
  /\ matched[1].start_line > matched[3].start_line

\* ------------------------------------------------------------------------
\* All runs
\* ------------------------------------------------------------------------

Init ==
  \/ InitSearch
  \/ InitTokenize
  \/ InitFilter
  \/ InitSummary
  \/ InitFormat
  \/ InitTrip

Next ==
  \/ SearchNext
  \/ FormatNext
  \/ TripNext

Spec == Init /\ [][Next]_vars

=============================================================================
